---- MODULE Spec2Model ----
(***************************************************************************)
(* Model of the map-centric listing browser:                               *)
(*   - the polygon search route  (src/app/api/listings/polygon/route.ts)   *)
(*   - calculateAggregations     (same file)                               *)
(*   - the search orchestrator of the page (src/app/page.tsx)              *)
(*   - MapContainer's drawing state and search button                      *)
(*   - the region colors of PolygonLayer                                   *)
(*   - ListingService.processRawListing / processBatch (ingestion)         *)
(*   - the recent listings route (src/app/api/listings/recent/route.ts)    *)
(* Each part has its own specification; the variables of the other parts   *)
(* stay at their initial values.                                           *)
(* Numbers that the code divides are kept as fractions [num, den], so the  *)
(* arithmetic is exact.  Geometry is restricted to axis-aligned            *)
(* rectangles on the integer grid, for which ST_Contains / ST_Union are    *)
(* computed exactly.                                                       *)
(***************************************************************************)
EXTENDS Integers, Sequences, FiniteSets, TLC

VARIABLES
    db,          \* the "Listing" table: a set of rows with unique ids
    pc,          \* route: "idle" | "pending" | "done"
    req,         \* route: the request being handled
    resp,        \* route: the response produced by POST
    queries,     \* route: number of database queries issued for req
    dbOutcome,   \* route: "none" | "rows" | "error", what the query did
    aggIn,       \* calculateAggregations: its argument
    aggOut,      \* calculateAggregations: its result
    aggPc,       \* "input" | "done"
    searchHistory,      \* page: SearchResult[], newest first
    activeSearchIndex,  \* page: index (0-based) of the active search
    loading,            \* page
    error,              \* page: string | null
    drawingPolygons,    \* page: Feature<Polygon>[]
    inflight,           \* page: the fetches that have not settled, each with
                        \*       the drawingPolygons its closure captured
    received,           \* page: the response that settled the last fetch
    nextFeatureId,      \* drawing tool: the id of the next feature drawn
    lastEvent,          \* drawing tool: the last event it emitted to the page
    mcDrawingPolygons,  \* MapContainer: drawingPolygons
    isLoading,          \* MapContainer
    mcCall,             \* MapContainer: the pending onSearchRegion calls, each
                        \*               the list of polygons handed to it
    mcOutcome,          \* MapContainer: "none" | "resolved" | "rejected",
                        \*               how the last onSearchRegion call settled
    mcNextFeatureId,    \* drawing tool under MapContainer: next feature id
    searchResults,      \* PolygonLayer: the prop searchResults, newest first
    currentDrawing,     \* PolygonLayer: the prop currentDrawing
    rendered,           \* PolygonLayer: the memoised processedPolygons
    listingTable,       \* ingestion: the "Listing" table, id -> row
    rawListingData,     \* ingestion: the raw records, id -> record
    runs,               \* ingestion: the processBatch calls under way
    recentTable,        \* recent route: number of listings per createdAt
    recentResp,         \* recent route: the response of GET
    clientCall          \* API client: the call of searchByPolygons under way

routeVars == <<db, pc, req, resp, queries, dbOutcome>>
aggVars == <<aggIn, aggOut, aggPc>>
pageVars == <<searchHistory, activeSearchIndex, loading, error, drawingPolygons,
              inflight, received, nextFeatureId, lastEvent>>
containerVars == <<mcDrawingPolygons, isLoading, mcCall, mcOutcome, mcNextFeatureId>>
layerVars == <<searchResults, currentDrawing, rendered>>
ingestVars == <<listingTable, rawListingData, runs>>
recentVars == <<recentTable, recentResp>>
otherVars == <<containerVars, layerVars, ingestVars, recentVars, clientCall>>
vars == <<routeVars, aggVars, pageVars, otherVars>>

----------------------------------------------------------------------------
(* Bounds *)

MaxListings == 2      \* rows in the Listing table
MaxPolygons == 2      \* elements of a request body
MaxAggLen == 3        \* length of the argument of calculateAggregations
MaxHistory == 3       \* searches kept in the page's history
MaxFeatures == 3      \* features drawn in one session
MaxBatch == 2         \* records of one call of processBatch
MaxCreatedAt == 3     \* distinct createdAt values in the Listing table
MaxSurplus == 1       \* rows of one createdAt beyond the number taken
MaxLayerSearches == 9 \* searches in the history passed to PolygonLayer

(* Program constants *)

DefaultMaxPrice == 10000000
DefaultLimit == 1000
RecentTake == 100

----------------------------------------------------------------------------
(* Values *)

NULL == "NULL"        \* searchParams.get() on an absent parameter
NoRate == -1          \* SQL NULL in "denormalizedAssumableInterestRate"

\* the result of a JavaScript division, kept exact
Frac(n, d) == [num |-> n, den |-> d]
FracEq(f, g) == f.num * g.den = g.num * f.den

RECURSIVE SumSeq(_)
SumSeq(s) == IF s = <<>> THEN 0 ELSE Head(s) + SumSeq(Tail(s))

RECURSIVE SeqOfSet(_)
\* the elements of a set of rows as a sequence, ascending by id
SeqOfSet(S) ==
    IF S = {} THEN <<>>
    ELSE LET r == CHOOSE x \in S : \A y \in S : x.id <= y.id
         IN <<r>> \o SeqOfSet(S \ {r})

----------------------------------------------------------------------------
(* calculateAggregations *)

RECURSIVE Insert(_, _)
Insert(x, s) ==
    IF s = <<>> THEN <<x>>
    ELSE IF x <= Head(s) THEN <<x>> \o s
    ELSE <<Head(s)>> \o Insert(x, Tail(s))

RECURSIVE SortAsc(_)
\* Array.prototype.sort((a, b) => a - b)
SortAsc(s) == IF s = <<>> THEN <<>> ELSE Insert(Head(s), SortAsc(Tail(s)))

MapRates(s) == [i \in 1..Len(s) |-> s[i].rate]

IsAssumableRow(l) == l.isAssumable
HasRate(r) == r # NoRate

AssumableOf(listings) == SelectSeq(listings, IsAssumableRow)

\* RatesOf without the .sort()
RatesOfUnsorted(assumable) == SelectSeq(MapRates(assumable), HasRate)

RatesOf(assumable) == SortAsc(SelectSeq(MapRates(assumable), HasRate))

medianLoanRate(assumable) ==
    IF Len(assumable) = 0 THEN Frac(0, 1)
    ELSE LET rates == RatesOf(assumable)
             midIndex == Len(rates) \div 2     \* 0-based
         IN IF Len(rates) = 0 THEN Frac(0, 1)
            ELSE IF Len(rates) % 2 = 0
                 THEN Frac(rates[midIndex] + rates[midIndex + 1], 2)
                 ELSE Frac(rates[midIndex + 1], 1)

PriceOf(s) == [i \in 1..Len(s) |-> s[i].price]

\* avgPriceOf without the guard against an empty array
avgPriceOfNoGuard(listings) == Frac(SumSeq(PriceOf(listings)), Len(listings))

avgPriceOf(listings) ==
    IF Len(listings) # 0 THEN Frac(SumSeq(PriceOf(listings)), Len(listings))
    ELSE Frac(0, 1)

\* TypeKey without the || 'Unknown'
TypeKeyNoFallback(l) == l.propertyType

TypeKey(l) == IF l.propertyType = "" THEN "Unknown" ELSE l.propertyType

RECURSIVE propertyTypesOf(_)
\* listings.reduce((acc, l) => { acc[type] = (acc[type] || 0) + 1 }, {})
propertyTypesOf(listings) ==
    IF listings = <<>> THEN <<>>
    ELSE LET n == Len(listings)
             acc == propertyTypesOf(SubSeq(listings, 1, n - 1))
             type == TypeKey(listings[n])
             old == IF type \in DOMAIN acc THEN acc[type] ELSE 0
         IN [k \in DOMAIN acc \cup {type} |-> IF k = type THEN old + 1 ELSE acc[k]]

calculateAggregations(listings) ==
    LET assumable == AssumableOf(listings)
    IN [totalListings |-> Len(listings),
        assumableListings |-> Len(assumable),
        medianLoanRate |-> medianLoanRate(assumable),
        avgPrice |-> avgPriceOf(listings),
        avgAssumablePrice |-> avgPriceOf(assumable),
        propertyTypes |-> propertyTypesOf(listings)]

NoAggregations ==
    [totalListings |-> 0, assumableListings |-> 0, medianLoanRate |-> Frac(0, 1),
     avgPrice |-> Frac(0, 1), avgAssumablePrice |-> Frac(0, 1), propertyTypes |-> <<>>]

----------------------------------------------------------------------------
(* Geometry: what the database does with the query text.  Polygons are     *)
(* axis-aligned rectangles with integer corners and listing points are     *)
(* integer points, so containment is decided on unit cells.                *)

\* toWKT with the coordinates written as `${lat} ${lng}`
toWKTSwapped(polygon) ==
    [i \in 1..Len(polygon.ring) |-> [x |-> polygon.ring[i][2], y |-> polygon.ring[i][1]]]

\* `${lng} ${lat}` for every position of the outer ring
toWKT(polygon) ==
    [i \in 1..Len(polygon.ring) |-> [x |-> polygon.ring[i][1], y |-> polygon.ring[i][2]]]

\* ST_GeomFromText raises an error on a ring that is not closed
WktParses(wkt) == Len(wkt) >= 4 /\ wkt[1] = wkt[Len(wkt)]

MinOf(S) == CHOOSE m \in S : \A n \in S : m <= n
MaxOf(S) == CHOOSE m \in S : \A n \in S : m >= n

\* ST_SetSRID(ST_GeomFromText(wkt), 4326): the rectangle spanned by the ring
GeomFromText(wkt) ==
    LET xs == {wkt[i].x : i \in 1..Len(wkt)}
        ys == {wkt[i].y : i \in 1..Len(wkt)}
    IN {[x1 |-> MinOf(xs), x2 |-> MaxOf(xs), y1 |-> MinOf(ys), y2 |-> MaxOf(ys)]}

\* ST_Union(ARRAY[...]): one geometry, the union of the point sets
ST_Union(geoms) == UNION {geoms[i] : i \in 1..Len(geoms)}

\* ST_MakePoint(l.longitude, l.latitude)
ST_MakePoint(l) == [x |-> l.longitude, y |-> l.latitude]

\* the unit cell [cx, cx+1] x [cy, cy+1] lies in the geometry
CellCovered(geom, cx, cy) ==
    \E r \in geom : r.x1 <= cx /\ cx + 1 <= r.x2 /\ r.y1 <= cy /\ cy + 1 <= r.y2

\* ST_Contains(geom, point): the point lies in the interior of the geometry
ST_Contains(geom, p) ==
    \A dx \in {-1, 0} : \A dy \in {-1, 0} : CellCovered(geom, p.x + dx, p.y + dy)

----------------------------------------------------------------------------
(* Query parameters *)

\* the numerals that occur as parameter values
NumeralValue ==
    ("0" :> 0) @@ ("1" :> 1) @@ ("2" :> 2) @@ ("200" :> 200) @@ ("300" :> 300)
    @@ ("1000" :> DefaultLimit) @@ ("10000000" :> DefaultMaxPrice)

NaN == [nan |-> TRUE, v |-> 0]

\* parseFloat / parseInt on the values above; anything else is NaN
parseNumber(s) ==
    IF s \in DOMAIN NumeralValue THEN [nan |-> FALSE, v |-> NumeralValue[s]] ELSE NaN

\* url.searchParams.get(name) || dflt
OrDefault(s, dflt) == IF s = NULL \/ s = "" THEN dflt ELSE s

\* showOnlyAssumable as a truthiness test of the parameter
showOnlyAssumableTruthy(r) == r.assumable # NULL /\ r.assumable # ""

showOnlyAssumable(r) == r.assumable = "true"
minPrice(r) == parseNumber(OrDefault(r.minPrice, "0"))
maxPrice(r) == parseNumber(OrDefault(r.maxPrice, "10000000"))
limit(r) == parseNumber(OrDefault(r.limit, "1000"))

\* if (minPrice > 0)  -- false for NaN
MinPriceApplies(r) == ~minPrice(r).nan /\ minPrice(r).v > 0
\* if (maxPrice < 10000000)  -- false for NaN
MaxPriceApplies(r) == ~maxPrice(r).nan /\ maxPrice(r).v < DefaultMaxPrice

\* filterConditions, evaluated on a row
filterConditions(r, l) ==
    /\ showOnlyAssumable(r) => l.isAssumable
    /\ MinPriceApplies(r) => l.price >= minPrice(r).v
    /\ MaxPriceApplies(r) => l.price <= maxPrice(r).v

----------------------------------------------------------------------------
(* Request validation *)

\* polygons = Array.isArray(body) ? body : [body]
polygonsOf(r) == r.elems

ElemIsPolygon(e) == ~e.isNull /\ e.geomType = "Polygon"
ElemHasRing(e) == e.hasRing
ElemValid(e) == ElemIsPolygon(e) /\ ElemHasRing(e)

\* FirstInvalid with a loop that only looks at the first element
FirstInvalidHeadOnly(polygons) == IF ElemValid(polygons[1]) THEN -1 ELSE 0

\* the index (0-based) at which the validation loop returns, or -1
FirstInvalid(polygons) ==
    IF \A i \in 1..Len(polygons) : ElemValid(polygons[i]) THEN -1
    ELSE MinOf({i \in 1..Len(polygons) : ~ElemValid(polygons[i])}) - 1

----------------------------------------------------------------------------
(* The database query of POST *)

wktPolygons(polygons) == [i \in 1..Len(polygons) |-> toWKT(polygons[i])]

\* GeomRows without the ST_Union: one row of geometry for every polygon
GeomRowsNoUnion(wkts) == [i \in 1..Len(wkts) |-> GeomFromText(wkts[i])]

\* the rows of geometry that "Listing" is joined with: the polygon itself
\* for one polygon, the single row of the CTE union_geom for several
GeomRows(wkts) ==
    IF Len(wkts) = 1 THEN <<GeomFromText(wkts[1])>>
    ELSE <<ST_Union([i \in 1..Len(wkts) |-> GeomFromText(wkts[i])])>>

\* the statement is rejected by the database: a ring that does not parse,
\* or LIMIT NaN
QueryRejected(r) ==
    \/ \E i \in 1..Len(polygonsOf(r)) : ~WktParses(toWKT(polygonsOf(r)[i]))
    \/ limit(r).nan

\* the rows of the table that satisfy the WHERE clause for one geometry
Selected(r, table, geom) ==
    {l \in table : ST_Contains(geom, ST_MakePoint(l)) /\ filterConditions(r, l)}

RECURSIVE JoinRows(_, _, _)
\* FROM "Listing" l, <geometry rows> WHERE ...: one result row for every
\* pair of a listing and a geometry row that satisfies the WHERE clause
JoinRows(r, table, geoms) ==
    IF geoms = <<>> THEN <<>>
    ELSE SeqOfSet(Selected(r, table, Head(geoms))) \o JoinRows(r, table, Tail(geoms))

Matching(r, table) == JoinRows(r, table, GeomRows(wktPolygons(polygonsOf(r))))

RECURSIVE Pick(_, _, _)
\* the rows of s at the positions in I, from position i on
Pick(s, I, i) ==
    IF i > Len(s) THEN <<>>
    ELSE (IF i \in I THEN <<s[i]>> ELSE <<>>) \o Pick(s, I, i + 1)

\* LIMIT n: every row of the result when there are at most n, otherwise
\* some n of them (the statement has no ORDER BY)
LimitChoices(rows, n) ==
    IF Len(rows) <= n THEN {rows}
    ELSE {Pick(rows, I, 1) : I \in {J \in SUBSET (1..Len(rows)) : Cardinality(J) = n}}

----------------------------------------------------------------------------
(* Responses *)

ErrorResponse(status, msg, idx, details) ==
    [status |-> status, error |-> msg, index |-> idx, details |-> details,
     hasPayload |-> FALSE, listings |-> <<>>, aggregations |-> NoAggregations,
     totalCount |-> 0]

\* NextResponse.json({ listings, aggregations, totalCount: listings.length })
OkResponse(listings) ==
    [status |-> 200, error |-> "", index |-> -1, details |-> FALSE,
     hasPayload |-> TRUE, listings |-> listings,
     aggregations |-> calculateAggregations(listings),
     totalCount |-> Len(listings)]

NoResponse == ErrorResponse(0, "", -1, FALSE)

\* the catch block answering with an empty result instead of an error
DbFailureSwallowed(polygons) == OkResponse(<<>>)

\* catch (singlePolygonError) / catch (dbError)
DbFailureResponse(polygons) ==
    IF Len(polygons) = 1
    THEN ErrorResponse(500, "Failed to process single polygon query", -1, TRUE)
    ELSE ErrorResponse(500, "Database query failed", -1, TRUE)

\* the response of the handler before it reaches the database, or NoResponse
\* when the request passes validation
ValidationResponse(r) ==
    IF r.bodyKind = "invalidJSON"
    THEN ErrorResponse(400, "Invalid JSON in request body", -1, TRUE)
    ELSE IF Len(polygonsOf(r)) = 0
    THEN ErrorResponse(400, "No polygons provided", -1, FALSE)
    ELSE LET i == FirstInvalid(polygonsOf(r))
         IN IF i = -1 THEN NoResponse
            ELSE IF ~ElemIsPolygon(polygonsOf(r)[i + 1])
            THEN ErrorResponse(400, "Invalid polygon data at index", i, FALSE)
            ELSE ErrorResponse(400, "Invalid coordinates in polygon at index", i, FALSE)

----------------------------------------------------------------------------
(* Inputs of the route *)

Ring(x1, y1, x2, y2) == <<<<x1, y1>>, <<x2, y1>>, <<x2, y2>>, <<x1, y2>>, <<x1, y1>>>>

\* a GeoJSON feature: ring is geometry.coordinates[0], holes are the rings after it
Feature(ring, holes) ==
    [isNull |-> FALSE, geomType |-> "Polygon", hasRing |-> TRUE, ring |-> ring, holes |-> holes]

NotAFeature(isNull, geomType) ==
    [isNull |-> isNull, geomType |-> geomType, hasRing |-> FALSE, ring |-> <<>>, holes |-> <<>>]

PolyA == Feature(Ring(0, 0, 2, 2), <<>>)
PolyB == Feature(Ring(2, 0, 4, 2), <<>>)       \* shares the edge x = 2 with PolyA
PolyC == Feature(Ring(0, 0, 3, 2), <<>>)       \* covers PolyA and overlaps PolyB
PolyHoled == Feature(Ring(-1, -1, 3, 3), <<Ring(0, 0, 2, 2)>>)   \* PolyA cut out of a square
PolyOpen == Feature(SubSeq(Ring(0, 0, 2, 2), 1, 4), <<>>)        \* ring not closed
ElemNull == NotAFeature(TRUE, "none")           \* null
ElemPoint == NotAFeature(FALSE, "Point")        \* a feature of another geometry type
ElemNoRing == NotAFeature(FALSE, "Polygon")     \* coordinates[0] is no array

Elements == {PolyA, PolyB, PolyC, PolyHoled, PolyOpen, ElemNull, ElemPoint, ElemNoRing}

Row(id, lng, lat, price, assumable, rate, type) ==
    [id |-> id, longitude |-> lng, latitude |-> lat, price |-> price,
     isAssumable |-> assumable, rate |-> rate, propertyType |-> type]

\* the rows a table is made of
Catalogue ==
    { Row(1, 1, 1, 100, TRUE, 3, "House"),        \* inside PolyA and PolyC
      Row(2, 2, 1, 250, FALSE, NoRate, ""),       \* on the common edge of PolyA and PolyB, inside PolyC
      Row(3, 3, 1, 20000000, TRUE, 5, "Condo"),   \* inside PolyB, on an edge of PolyC
      Row(4, 2, 2, 250, TRUE, NoRate, "House"),   \* on the upper edge of all three
      Row(5, 1, 3, 100, FALSE, 4, "Condo"),       \* outside all three
      Row(6, 1, 1, 250, TRUE, 3, "House") }       \* at the point of row 1

Tables == {t \in SUBSET Catalogue : Cardinality(t) <= MaxListings}

RECURSIVE SeqsUpTo(_, _)
SeqsUpTo(S, n) ==
    IF n = 0 THEN {<<>>}
    ELSE LET shorter == SeqsUpTo(S, n - 1)
         IN shorter \cup {Append(s, e) : s \in {t \in shorter : Len(t) = n - 1}, e \in S}

AssumableParams == {NULL, "true", "false"}
MinPriceParams == {NULL, "200"}
MaxPriceParams == {NULL, "300", "10000000"}
LimitParams == {NULL, "1", "abc"}

Request(kind, elems, a, lo, hi, lim) ==
    [bodyKind |-> kind, elems |-> elems, assumable |-> a,
     minPrice |-> lo, maxPrice |-> hi, limit |-> lim]

NoRequest == Request("none", <<>>, NULL, NULL, NULL, NULL)

----------------------------------------------------------------------------
(* The route as a state machine: a request arrives, POST answers it, the   *)
(* response is sent and the handler is gone.                               *)

Receive ==
    /\ pc = "idle"
    /\ \E kind \in {"invalidJSON", "array", "object"} :
       \E elems \in SeqsUpTo(Elements, MaxPolygons) :
       \E a \in AssumableParams, lo \in MinPriceParams,
          hi \in MaxPriceParams, lim \in LimitParams :
          /\ kind = "invalidJSON" => elems = <<>>
          /\ kind = "object" => Len(elems) = 1
          /\ req' = Request(kind, elems, a, lo, hi, lim)
    /\ pc' = "pending"
    /\ UNCHANGED <<db, resp, queries, dbOutcome, aggVars, pageVars, otherVars>>

\* POST: dbFails is a failure of the database that the request did not cause
POST ==
    /\ pc = "pending"
    /\ LET early == ValidationResponse(req)
       IN IF early # NoResponse
          THEN resp' = early /\ queries' = 0 /\ dbOutcome' = "none"
          ELSE /\ queries' = 1
               /\ \E dbFails \in BOOLEAN :
                    IF dbFails \/ QueryRejected(req)
                    THEN /\ dbOutcome' = "error"
                         /\ resp' = DbFailureResponse(polygonsOf(req))
                    ELSE /\ dbOutcome' = "rows"
                         /\ \E rows \in LimitChoices(Matching(req, db), limit(req).v) :
                                resp' = OkResponse(rows)
    /\ pc' = "done"
    /\ UNCHANGED <<db, req, aggVars, pageVars, otherVars>>

Respond ==
    /\ pc = "done"
    /\ pc' = "idle"
    /\ req' = NoRequest
    /\ resp' = NoResponse
    /\ queries' = 0
    /\ dbOutcome' = "none"
    /\ UNCHANGED <<db, aggVars, pageVars, otherVars>>

RouteIdle ==
    /\ pc = "idle"
    /\ req = NoRequest
    /\ resp = NoResponse
    /\ queries = 0
    /\ dbOutcome = "none"

AggIdle ==
    /\ aggIn = <<>>
    /\ aggOut = NoAggregations
    /\ aggPc = "input"

NoReceived == [ok |-> FALSE, data |-> NoResponse, message |-> NULL]

PageIdle ==
    /\ searchHistory = <<>>
    /\ activeSearchIndex = 0
    /\ loading = FALSE
    /\ error = NULL
    /\ drawingPolygons = <<>>
    /\ inflight = <<>>
    /\ received = NoReceived
    /\ nextFeatureId = 1
    /\ lastEvent = [action |-> "none", polygon |-> [id |-> 0, geomType |-> NULL], parity |-> 0]

ContainerIdle ==
    /\ mcDrawingPolygons = <<>>
    /\ isLoading = FALSE
    /\ mcCall = <<>>
    /\ mcOutcome = "none"
    /\ mcNextFeatureId = 1

LayerIdle ==
    /\ searchResults = <<>>
    /\ currentDrawing = <<>>
    /\ rendered = <<>>

IngestIdle ==
    /\ listingTable = <<>>
    /\ rawListingData = <<>>
    /\ runs = <<>>

RecentIdle ==
    /\ recentTable = <<>>
    /\ recentResp = [status |-> 0, listings |-> <<>>, error |-> NULL]

\* no call of searchByPolygons was made
NoClientCall == [pc |-> "idle", polygons |-> <<>>, thrown |-> NULL, requests |-> <<>>]

ClientIdle == clientCall = NoClientCall

OthersIdle == ContainerIdle /\ LayerIdle /\ IngestIdle /\ RecentIdle /\ ClientIdle

Init ==
    /\ db \in Tables
    /\ RouteIdle
    /\ AggIdle
    /\ PageIdle
    /\ OthersIdle

Next == Receive \/ POST \/ Respond

Spec == Init /\ [][Next]_vars

----------------------------------------------------------------------------
(* calculateAggregations on its own: any array of rows as the argument *)

AggRows ==
    {Row(0, 0, 0, price, assumable, rate, type) :
        price \in {100, 250}, assumable \in BOOLEAN,
        rate \in {NoRate, 3, 8}, type \in {"", "House"}}

Aggregate ==
    /\ aggPc = "input"
    /\ aggOut' = calculateAggregations(aggIn)
    /\ aggPc' = "done"
    /\ UNCHANGED <<aggIn, routeVars, pageVars, otherVars>>

AggInit ==
    /\ db = {}
    /\ RouteIdle
    /\ aggIn \in SeqsUpTo(AggRows, MaxAggLen)
    /\ aggOut = NoAggregations
    /\ aggPc = "input"
    /\ PageIdle
    /\ OthersIdle

AggNext == Aggregate

AggSpec == AggInit /\ [][AggNext]_vars

----------------------------------------------------------------------------
(* The page: the search orchestrator of Home.  A SearchResult is modelled  *)
(* by its polygons, listings and aggregations.  The "Search Region" button *)
(* is rendered while there are drawn polygons and is disabled while        *)
(* loading, so at most one fetch is outstanding.                           *)

Drawn(id, geomType) == [id |-> id, geomType |-> geomType]

GeometryTypes == {"Polygon", "LineString"}

\* the bodies of the 200 responses the page may receive
PageResults ==
    { OkResponse(<<>>),
      OkResponse(SeqOfSet({l \in Catalogue : l.id \in {1, 2}})) }

\* errorData.error of a non-OK response; "" when the body has no error field
ServerErrors == {"Database query failed", ""}

\* the message of the error that fetch rejects with
NetworkErrors == {"Failed to fetch"}

\* setSearchHistory(prev => [...prev, newSearch])
AppendSearch(newSearch, prev) == Append(prev, newSearch)

\* setSearchHistory([newSearch])
ReplaceSearch(newSearch, prev) == <<newSearch>>

\* setSearchHistory(prev => [newSearch, ...prev])
PrependSearch(newSearch, prev) == <<newSearch>> \o prev

\* the argument null of onPolygonChange
NullFeature == Drawn(0, NULL)

\* an event of the drawing tool: onPolygonChange(polygon, action); parity
\* alternates from one event to the next
DrawEvent(action, polygon, parity) ==
    [action |-> action, polygon |-> polygon, parity |-> parity]

\* prev => prev.filter(p => p.id !== polygon.id)
WithoutId(polygons, id) ==
    LET Other(p) == p.id # id
    IN SelectSeq(polygons, Other)

\* handlePolygonChange without the test of polygon.geometry.type
handlePolygonChangeAnyGeometry(polygons, polygon, action) ==
    IF action = "create" /\ polygon # NullFeature
    THEN Append(polygons, polygon)
    ELSE IF action = "delete" /\ polygon # NullFeature
    THEN WithoutId(polygons, polygon.id)
    ELSE IF action = "clear"
    THEN <<>>
    ELSE polygons

\* handlePolygonChange: the list of drawn polygons after the event
handlePolygonChange(polygons, polygon, action) ==
    IF action = "create" /\ polygon # NullFeature /\ polygon.geomType = "Polygon"
    THEN Append(polygons, polygon)
    ELSE IF action = "delete" /\ polygon # NullFeature
    THEN WithoutId(polygons, polygon.id)
    ELSE IF action = "clear"
    THEN <<>>
    ELSE polygons

\* handlePolygonChange(polygon, 'create')
PolygonCreate ==
    /\ nextFeatureId <= MaxFeatures
    /\ \E g \in GeometryTypes :
          LET polygon == Drawn(nextFeatureId, g)
          IN /\ drawingPolygons' = handlePolygonChange(drawingPolygons, polygon, "create")
             /\ lastEvent' = DrawEvent("create", polygon, 1 - lastEvent.parity)
    /\ nextFeatureId' = nextFeatureId + 1
    /\ UNCHANGED <<searchHistory, activeSearchIndex, loading, error, inflight, received,
                   routeVars, aggVars, otherVars>>

\* handlePolygonChange(polygon, 'delete')
PolygonDelete ==
    /\ \E id \in 1..MaxFeatures :
          /\ id < nextFeatureId
          /\ LET polygon == Drawn(id, "Polygon")
             IN /\ drawingPolygons' = handlePolygonChange(drawingPolygons, polygon, "delete")
                /\ lastEvent' = DrawEvent("delete", polygon, 1 - lastEvent.parity)
    /\ UNCHANGED <<searchHistory, activeSearchIndex, loading, error, inflight, received,
                   nextFeatureId, routeVars, aggVars, otherVars>>

\* handlePolygonChange(null, 'clear')
PolygonClear ==
    /\ drawingPolygons' = handlePolygonChange(drawingPolygons, NullFeature, "clear")
    /\ lastEvent' = DrawEvent("clear", NullFeature, 1 - lastEvent.parity)
    /\ UNCHANGED <<searchHistory, activeSearchIndex, loading, error, inflight, received,
                   nextFeatureId, routeVars, aggVars, otherVars>>

\* the buttons "New Region" and "Clear": setDrawingPolygons([])
ClearDrawing ==
    /\ drawingPolygons' = <<>>
    /\ UNCHANGED <<searchHistory, activeSearchIndex, loading, error, inflight, received,
                   nextFeatureId, lastEvent, routeVars, aggVars, otherVars>>

\* the body of fetchPolygonListings up to its await fetch(...)
fetchPolygonListingsCall ==
    /\ IF Len(drawingPolygons) = 0
       THEN /\ error' = "Please draw a polygon on the map first"
            /\ UNCHANGED <<loading, inflight>>
       ELSE /\ loading' = TRUE
            /\ error' = NULL
            /\ inflight' = Append(inflight, [body |-> drawingPolygons,
                                             closure |-> drawingPolygons])
    /\ UNCHANGED <<searchHistory, activeSearchIndex, drawingPolygons, received,
                   nextFeatureId, lastEvent, routeVars, aggVars, otherVars>>

\* the button "Search Region": rendered while there are drawn polygons,
\* disabled while loading
fetchPolygonListings ==
    /\ drawingPolygons # <<>>
    /\ ~loading
    /\ Len(searchHistory) < MaxHistory
    /\ fetchPolygonListingsCall

\* the fetch resolves with a 200 response
FetchOk ==
    /\ inflight # <<>>
    /\ \E data \in PageResults :
          LET newSearch == [polygons |-> Head(inflight).closure,
                            listings |-> data.listings,
                            aggregations |-> data.aggregations]
          IN /\ received' = [ok |-> TRUE, data |-> data, message |-> NULL]
             /\ searchHistory' = PrependSearch(newSearch, searchHistory)
    /\ activeSearchIndex' = 0
    /\ drawingPolygons' = <<>>
    /\ loading' = FALSE
    /\ inflight' = Tail(inflight)
    /\ UNCHANGED <<error, nextFeatureId, lastEvent, routeVars, aggVars, otherVars>>

\* the fixed message, whatever the response says
FailureMessageGeneric(e) == "Failed to fetch polygon listings"

\* errorData.error || 'Failed to fetch polygon listings'
FailureMessage(e) == IF e = "" THEN "Failed to fetch polygon listings" ELSE e

\* the fetch resolves with a response that is not OK
FetchNotOk ==
    /\ inflight # <<>>
    /\ \E e \in ServerErrors :
          LET message == FailureMessage(e)
          IN /\ received' = [ok |-> FALSE, data |-> ErrorResponse(500, e, -1, FALSE),
                              message |-> message]
             /\ error' = message
    /\ loading' = FALSE
    /\ inflight' = Tail(inflight)
    /\ UNCHANGED <<searchHistory, activeSearchIndex, drawingPolygons, nextFeatureId, lastEvent,
                   routeVars, aggVars, otherVars>>

\* the fetch rejects and loading is left as it is
FetchRejectedNoFinally ==
    /\ inflight # <<>>
    /\ \E e \in NetworkErrors :
          /\ received' = [ok |-> FALSE, data |-> NoResponse, message |-> e]
          /\ error' = e
    /\ inflight' = Tail(inflight)
    /\ UNCHANGED <<searchHistory, activeSearchIndex, loading, drawingPolygons, nextFeatureId,
                   lastEvent, routeVars, aggVars, otherVars>>

\* the fetch rejects
FetchRejected ==
    /\ inflight # <<>>
    /\ \E e \in NetworkErrors :
          /\ received' = [ok |-> FALSE, data |-> NoResponse, message |-> e]
          /\ error' = e
    /\ loading' = FALSE
    /\ inflight' = Tail(inflight)
    /\ UNCHANGED <<searchHistory, activeSearchIndex, drawingPolygons, nextFeatureId, lastEvent,
                   routeVars, aggVars, otherVars>>

\* the listings of the newest search, whatever the index
listingsOfNewest(history, index) ==
    IF Len(history) = 0 THEN <<>> ELSE history[1].listings

\* the useMemo listings of Home and activeListings of InteractiveMap:
\* searchHistory[activeSearchIndex]?.listings || []
listingsOf(history, index) ==
    IF Len(history) = 0 THEN <<>>
    ELSE IF index + 1 \in DOMAIN history THEN history[index + 1].listings
    ELSE <<>>

\* setActiveSearchIndex(activeSearchIndex + 1), whatever the index
OlderIndexUnguarded(index, length) == index + 1

\* switchToPreviousSearch, handlePrevious: the index after "Older"
OlderIndex(index, length) == IF index < length - 1 THEN index + 1 ELSE index

\* setActiveSearchIndex(activeSearchIndex - 1), whatever the index
NewerIndexUnguarded(index) == index - 1

\* switchToNextSearch, handleNext: the index after "Newer"
NewerIndex(index) == IF index > 0 THEN index - 1 ELSE index

\* "Newer": the button, and ArrowRight when there are several searches
switchToNextSearch ==
    /\ activeSearchIndex' = NewerIndex(activeSearchIndex)
    /\ UNCHANGED <<searchHistory, loading, error, drawingPolygons, inflight, received,
                   nextFeatureId, lastEvent, routeVars, aggVars, otherVars>>

\* "Older": the button, and ArrowLeft when there are several searches
switchToPreviousSearch ==
    /\ activeSearchIndex' = OlderIndex(activeSearchIndex, Len(searchHistory))
    /\ UNCHANGED <<searchHistory, loading, error, drawingPolygons, inflight, received,
                   nextFeatureId, lastEvent, routeVars, aggVars, otherVars>>

PageInit ==
    /\ db = {}
    /\ RouteIdle
    /\ AggIdle
    /\ PageIdle
    /\ OthersIdle

PageNext ==
    \/ PolygonCreate
    \/ PolygonDelete
    \/ PolygonClear
    \/ ClearDrawing
    \/ fetchPolygonListings
    \/ FetchOk
    \/ FetchNotOk
    \/ FetchRejected
    \/ switchToNextSearch
    \/ switchToPreviousSearch

PageSpec == PageInit /\ [][PageNext]_vars

----------------------------------------------------------------------------
(* Ingestion: ListingService.processRawListing and processBatch.  A value  *)
(* of the JSON field rawData is a tagged string; a Listing row keeps the   *)
(* id, price, latitude, longitude and status columns.  processBatch is     *)
(* split at its awaits, so that several calls can interleave.              *)

JsUndefined == [t |-> "undefined", v |-> ""]
JsNull == [t |-> "null", v |-> ""]
JsNumber(s) == [t |-> "number", v |-> s]
JsString(s) == [t |-> "string", v |-> s]

\* Number(val) for a number or a string
ToNumber(val) ==
    IF val.v \in DOMAIN NumeralValue THEN [nan |-> FALSE, v |-> NumeralValue[val.v]]
    ELSE IF val.t = "string" /\ val.v = "" THEN [nan |-> FALSE, v |-> 0]
    ELSE NaN

\* a value of type number | null: a number, NaN or null
Num(v) == [k |-> "number", v |-> v]
NumNaN == [k |-> "NaN", v |-> 0]
NumNull == [k |-> "null", v |-> 0]

\* getNumber(rawData, path, defaultValue): getProperty returns the default
\* for a value that is missing or null, the transform for a NaN
getNumber(val, defaultValue) ==
    IF val.t \in {"undefined", "null"} THEN defaultValue
    ELSE LET num == ToNumber(val)
         IN IF num.nan THEN defaultValue ELSE Num(num.v)

\* x || 0
OrZero(x) == IF x.k # "number" \/ x.v = 0 THEN Num(0) ELSE x

\* getNumber(rawData, path, 0) || 0
getNumberOrZero(val) == OrZero(getNumber(val, Num(0))).v

\* String(val).toUpperCase().trim() for the status strings of the records
UpperTrim ==
    ("sold" :> "SOLD") @@ (" Pending " :> "PENDING") @@ ("Closed" :> "CLOSED")
    @@ ("ACTIVE" :> "ACTIVE") @@ ("Withdrawn" :> "WITHDRAWN") @@ ("expired " :> "EXPIRED")
    @@ ("" :> "") @@ ("2" :> "2")

ListingStatuses == {"ACTIVE", "PENDING", "SOLD", "WITHDRAWN", "EXPIRED"}

\* the normalized status returned as it is, known or not
parseStatusNoDefault(val) ==
    LET status == IF val.t \in {"undefined", "null"} THEN "ACTIVE" ELSE val.v
    IN UpperTrim[status]

\* parseStatus(getString(rawData, 'status', 'ACTIVE'))
parseStatus(val) ==
    LET status == IF val.t \in {"undefined", "null"} THEN "ACTIVE" ELSE val.v
        normalized == UpperTrim[status]
    IN IF normalized \in ListingStatuses THEN normalized ELSE "ACTIVE"

RawData(price, latitude, longitude, status) ==
    [isNull |-> FALSE, price |-> price, latitude |-> latitude,
     longitude |-> longitude, status |-> status]

\* rawData: null
NullRawData ==
    [isNull |-> TRUE, price |-> JsUndefined, latitude |-> JsUndefined,
     longitude |-> JsUndefined, status |-> JsUndefined]

ListingRow(id, price, latitude, longitude, status) ==
    [id |-> id, price |-> price, latitude |-> latitude, longitude |-> longitude,
     status |-> status]

NoListing == ListingRow(0, 0, 0, 0, "ACTIVE")

\* rawData.photoUrls of a rawData that is null throws a TypeError
processRawListingThrows(rawListing) == rawListing.rawData.isNull

processRawListing(rawListing) ==
    ListingRow(rawListing.id,
               getNumberOrZero(rawListing.rawData.price),
               getNumberOrZero(rawListing.rawData.latitude),
               getNumberOrZero(rawListing.rawData.longitude),
               parseStatus(rawListing.rawData.status))

RawRecord(id, rawData, processedAt, status, errorMessage) ==
    [id |-> id, rawData |-> rawData, processedAt |-> processedAt,
     status |-> status, errorMessage |-> errorMessage]

\* data: { status: 'COMPLETED' } without processedAt
CompletedWithoutDate(rec) == [rec EXCEPT !.status = "COMPLETED"]

\* data: { processedAt: new Date(), status: 'COMPLETED' }
Completed(rec) == [rec EXCEPT !.processedAt = TRUE, !.status = "COMPLETED"]

\* data: { status: 'FAILED', errorMessage }
Failed(rec, message) == [rec EXCEPT !.status = "FAILED", !.errorMessage = message]

\* the rawData of the records: complete, with values that need conversion
\* or are missing, and null
RawDatas ==
    { RawData(JsNumber("300"), JsNumber("2"), JsNumber("1"), JsString("sold")),
      RawData(JsString("abc"), JsString("2"), JsNull, JsString("Closed")),
      NullRawData }

RawIds == {1, 2}

\* the states the raw records can be in before a batch: not processed, or
\* processed by an earlier batch
RawTables ==
    { t \in [RawIds -> { RawRecord(0, d, done, IF done THEN "COMPLETED" ELSE "PENDING", NULL) :
                            d \in RawDatas, done \in BOOLEAN }] :
         /\ t[1].rawData = RawData(JsNumber("300"), JsNumber("2"), JsNumber("1"), JsString("sold"))
         /\ t[2].rawData # t[1].rawData }

WithIds(t) == [id \in DOMAIN t |-> [t[id] EXCEPT !.id = id]]

\* a Listing written by an earlier ingestion
StaleListing(id) == ListingRow(id, 1, 0, 0, "EXPIRED")

Callers == {"A", "B"}

Run(batch, i, step, listingData, existing, message, processed, failed) ==
    [batch |-> batch, i |-> i, pc |-> step, listingData |-> listingData,
     existing |-> existing, message |-> message,
     processed |-> processed, failed |-> failed]

NoRun == Run(<<>>, 1, "idle", NoListing, FALSE, NULL, 0, 0)

DbErrors == {"Can't reach database server"}

\* the rows of the Listing table with the given id
RowsWithId(table, id) == {row \in table : row.id = id}

\* processBatch(rawListings): the caller passes records it read before
processBatch(c) ==
    /\ runs[c].pc = "idle"
    /\ \E batch \in SeqsUpTo({rawListingData[id] : id \in RawIds}, MaxBatch) :
          /\ batch # <<>>
          /\ \A i, j \in 1..Len(batch) : batch[i].id = batch[j].id => i = j
          /\ runs' = [runs EXCEPT ![c] = [NoRun EXCEPT !.batch = batch, !.pc = "loop"]]
    /\ UNCHANGED <<listingTable, rawListingData, routeVars, aggVars, pageVars,
                   containerVars, layerVars, recentVars, clientCall>>

\* a loop without the test of processedAt
NeverSkipped(rawListing) == FALSE

\* if (rawListing.processedAt) continue
Skipped(rawListing) == rawListing.processedAt

\* the head of the loop: the end of the batch, the skip of a processed
\* record, or processRawListing
NextRecord(c) ==
    LET run == runs[c]
    IN /\ run.pc = "loop"
       /\ runs' =
            [runs EXCEPT ![c] =
               IF run.i > Len(run.batch)
               THEN [run EXCEPT !.pc = "returned"]
               ELSE IF Skipped(run.batch[run.i])
               THEN [run EXCEPT !.i = run.i + 1]
               ELSE IF processRawListingThrows(run.batch[run.i])
               THEN [run EXCEPT !.pc = "catch",
                                !.message = "Cannot read properties of null"]
               ELSE [run EXCEPT !.pc = "find",
                                !.listingData = processRawListing(run.batch[run.i])]]
       /\ UNCHANGED <<listingTable, rawListingData, routeVars, aggVars, pageVars,
                      containerVars, layerVars, recentVars, clientCall>>

\* await prisma.listing.findUnique({ where: { id: listingData.id } })
FindUnique(c) ==
    LET run == runs[c]
    IN /\ run.pc = "find"
       /\ \/ runs' = [runs EXCEPT ![c] =
                        [run EXCEPT !.pc = "write",
                                    !.existing = RowsWithId(listingTable, run.listingData.id) # {}]]
          \/ \E e \in DbErrors :
                runs' = [runs EXCEPT ![c] = [run EXCEPT !.pc = "catch", !.message = e]]
       /\ UNCHANGED <<listingTable, rawListingData, routeVars, aggVars, pageVars,
                      containerVars, layerVars, recentVars, clientCall>>

\* await prisma.listing.update(...) or await prisma.listing.create(...)
WriteListing(c) ==
    LET run == runs[c]
        present == RowsWithId(listingTable, run.listingData.id)
    IN /\ run.pc = "write"
       /\ \/ /\ run.existing /\ present # {}
             /\ listingTable' = (listingTable \ present) \cup {run.listingData}
             /\ runs' = [runs EXCEPT ![c] = [run EXCEPT !.pc = "mark"]]
          \/ /\ ~run.existing /\ present = {}
             /\ listingTable' = listingTable \cup {run.listingData}
             /\ runs' = [runs EXCEPT ![c] = [run EXCEPT !.pc = "mark"]]
          \/ /\ ~run.existing /\ present # {}
             /\ runs' = [runs EXCEPT ![c] =
                           [run EXCEPT !.pc = "catch",
                                       !.message = "Unique constraint failed on the fields: (id)"]]
             /\ UNCHANGED listingTable
          \/ /\ \E e \in DbErrors :
                   runs' = [runs EXCEPT ![c] = [run EXCEPT !.pc = "catch", !.message = e]]
             /\ UNCHANGED listingTable
       /\ UNCHANGED <<rawListingData, routeVars, aggVars, pageVars,
                      containerVars, layerVars, recentVars, clientCall>>

\* await prisma.rawListingData.update(... 'COMPLETED'); processed++
MarkProcessed(c) ==
    LET run == runs[c]
        id == run.batch[run.i].id
    IN /\ run.pc = "mark"
       /\ \/ /\ rawListingData' = [rawListingData EXCEPT ![id] = Completed(rawListingData[id])]
             /\ runs' = [runs EXCEPT ![c] =
                           [run EXCEPT !.pc = "loop", !.i = run.i + 1,
                                       !.processed = run.processed + 1]]
          \/ /\ \E e \in DbErrors :
                   runs' = [runs EXCEPT ![c] = [run EXCEPT !.pc = "catch", !.message = e]]
             /\ UNCHANGED rawListingData
       /\ UNCHANGED <<listingTable, routeVars, aggVars, pageVars,
                      containerVars, layerVars, recentVars, clientCall>>

\* catch: await prisma.rawListingData.update(... 'FAILED'); failed++
\* When this update fails too, processBatch rejects.
MarkFailed(c) ==
    LET run == runs[c]
        id == run.batch[run.i].id
    IN /\ run.pc = "catch"
       /\ \/ /\ rawListingData' = [rawListingData EXCEPT ![id] = Failed(rawListingData[id], run.message)]
             /\ runs' = [runs EXCEPT ![c] =
                           [run EXCEPT !.pc = "loop", !.i = run.i + 1,
                                       !.failed = run.failed + 1]]
          \/ /\ \E e \in DbErrors :
                   runs' = [runs EXCEPT ![c] = [run EXCEPT !.pc = "rejected", !.message = e]]
             /\ UNCHANGED rawListingData
       /\ UNCHANGED <<listingTable, routeVars, aggVars, pageVars,
                      containerVars, layerVars, recentVars, clientCall>>

IngestInit ==
    /\ db = {}
    /\ RouteIdle
    /\ AggIdle
    /\ PageIdle
    /\ ClientIdle
    /\ ContainerIdle
    /\ LayerIdle
    /\ RecentIdle
    /\ rawListingData \in {WithIds(t) : t \in RawTables}
    /\ listingTable \in SUBSET {StaleListing(id) : id \in RawIds}
    /\ runs = [c \in Callers |-> NoRun]

IngestNext ==
    \E c \in Callers :
       \/ processBatch(c)
       \/ NextRecord(c)
       \/ FindUnique(c)
       \/ WriteListing(c)
       \/ MarkProcessed(c)
       \/ MarkFailed(c)

IngestSpec == IngestInit /\ [][IngestNext]_vars

\* processRawListing over the values a field of rawData can hold: left
\* out, null, numbers, numeric and other strings
RawNumbers ==
    { JsUndefined, JsNull, JsNumber("300"), JsNumber("0"), JsString("2"), JsString("abc"),
      JsString("") }

RawCoordinates == { JsUndefined, JsNull, JsNumber("2"), JsString("abc") }

RawStatuses ==
    { JsUndefined, JsNull, JsString("sold"), JsString(" Pending "), JsString("Closed"),
      JsString("ACTIVE"), JsString("Withdrawn"), JsString("expired "), JsString(""),
      JsNumber("2") }

AnyRawDatas ==
    { RawData(p, la, lo, st) : p \in RawNumbers, la \in RawCoordinates,
                               lo \in RawCoordinates, st \in RawStatuses }
    \cup {NullRawData}

ProcessInit ==
    /\ db = {}
    /\ RouteIdle
    /\ AggIdle
    /\ PageIdle
    /\ ClientIdle
    /\ ContainerIdle
    /\ LayerIdle
    /\ RecentIdle
    /\ \E d \in AnyRawDatas :
          rawListingData = [id \in RawIds |->
                              RawRecord(id,
                                        IF id = 1 THEN d
                                        ELSE RawData(JsNumber("300"), JsNumber("2"),
                                                     JsNumber("1"), JsString("sold")),
                                        id # 1,
                                        IF id = 1 THEN "PENDING" ELSE "COMPLETED", NULL)]
    /\ listingTable = {}
    /\ runs = [c \in Callers |-> NoRun]

ProcessNext ==
    \/ processBatch("A")
    \/ NextRecord("A")

ProcessSpec == ProcessInit /\ [][ProcessNext]_vars

----------------------------------------------------------------------------
(* GET /api/listings/recent.  The rows of the Listing table are told apart *)
(* by createdAt and by an ordinal among the rows of the same createdAt;    *)
(* recentTable gives the number of rows of each createdAt.                 *)

RecentRow(createdAt, ordinal) == [createdAt |-> createdAt, ordinal |-> ordinal]

CreatedAts == 1..MaxCreatedAt

\* the rows of one createdAt, in the order the database happens to give
\* to rows that the ORDER BY does not tell apart
RowsAt(table, t, ties) ==
    [k \in 1..table[t] |->
        RecentRow(t, IF ties = "asc" THEN k ELSE table[t] + 1 - k)]

\* orderBy: { createdAt: 'asc' }
RECURSIVE OrderByCreatedAtAscFrom(_, _, _)
OrderByCreatedAtAscFrom(table, t, ties) ==
    IF t > MaxCreatedAt THEN <<>>
    ELSE RowsAt(table, t, ties) \o OrderByCreatedAtAscFrom(table, t + 1, ties)

OrderByCreatedAtAsc(table, ties) == OrderByCreatedAtAscFrom(table, 1, ties)

\* orderBy: { createdAt: 'desc' }
RECURSIVE OrderByCreatedAtDescFrom(_, _, _)
OrderByCreatedAtDescFrom(table, t, ties) ==
    IF t = 0 THEN <<>>
    ELSE RowsAt(table, t, ties) \o OrderByCreatedAtDescFrom(table, t - 1, ties)

OrderByCreatedAtDesc(table, ties) == OrderByCreatedAtDescFrom(table, MaxCreatedAt, ties)

\* take: n
Take(rows, n) == SubSeq(rows, 1, IF Len(rows) < n THEN Len(rows) ELSE n)

\* prisma.listing.findMany({ take: 100, orderBy: { createdAt: 'desc' } })
findManyRecent(table, ties) == Take(OrderByCreatedAtDesc(table, ties), RecentTake)

\* the numbers of rows of one createdAt: around the number taken
RowCounts == {0, 1, RecentTake - 1, RecentTake, RecentTake + MaxSurplus}

TieOrders == {"asc", "desc"}

\* no response yet
NoRecentResp == [status |-> 0, listings |-> <<>>, error |-> NULL]

\* GET
GET ==
    /\ recentResp = NoRecentResp
    /\ \/ \E ties \in TieOrders :
             recentResp' = [status |-> 200, listings |-> findManyRecent(recentTable, ties),
                            error |-> NULL]
       \/ recentResp' = [status |-> 500, listings |-> <<>>,
                         error |-> "Failed to fetch recent listings"]
    /\ UNCHANGED <<recentTable, routeVars, aggVars, pageVars,
                   containerVars, layerVars, ingestVars, clientCall>>

\* the response has been sent
RecentSent ==
    /\ recentResp # NoRecentResp
    /\ recentResp' = NoRecentResp
    /\ UNCHANGED <<recentTable, routeVars, aggVars, pageVars,
                   containerVars, layerVars, ingestVars, clientCall>>

RecentInit ==
    /\ db = {}
    /\ RouteIdle
    /\ AggIdle
    /\ PageIdle
    /\ ClientIdle
    /\ ContainerIdle
    /\ LayerIdle
    /\ IngestIdle
    /\ recentTable \in [CreatedAts -> RowCounts]
    /\ recentResp = NoRecentResp

RecentNext == GET \/ RecentSent

RecentSpec == RecentInit /\ [][RecentNext]_vars

----------------------------------------------------------------------------
(* PolygonLayer: the colors of the regions.  A SearchResult is modelled by *)
(* its polygons; the polygon of the n-th search made has id n.  The parent *)
(* passes the history, newest first, and the current drawing; the layer    *)
(* recomputes processedPolygons at every change of its props.              *)

REGION_COLOR_KEYS ==
    <<"alpha", "beta", "gamma", "delta", "epsilon", "zeta", "eta", "theta">>

Min(a, b) == IF a < b THEN a ELSE b

\* searchResults as it is
NotReversed(results) == results

\* [...searchResults].reverse()
Reversed(results) == [i \in 1..Len(results) |-> results[Len(results) + 1 - i]]

RenderedPolygon(polygon, searchIndex, colorKey, isCurrentDrawing) ==
    [polygon |-> polygon, searchIndex |-> searchIndex, colorKey |-> colorKey,
     isCurrentDrawing |-> isCurrentDrawing]

\* REGION_COLOR_KEYS[Math.min(index, REGION_COLOR_KEYS.length - 1)], for the
\* 0-based index of the code
ColorKeyAt(index) == REGION_COLOR_KEYS[Min(index, Len(REGION_COLOR_KEYS) - 1) + 1]

\* the forEach over reversedResults, from the 0-based index on
RECURSIVE SearchPolygonsFrom(_, _, _)
SearchPolygonsFrom(reversedResults, index, total) ==
    IF index >= Len(reversedResults) THEN <<>>
    ELSE LET result == reversedResults[index + 1]
             searchPolygons ==
                [k \in 1..Len(result.polygons) |->
                    RenderedPolygon(result.polygons[k], total - 1 - index,
                                    ColorKeyAt(index), FALSE)]
         IN searchPolygons \o SearchPolygonsFrom(reversedResults, index + 1, total)

\* the useMemo of processedPolygons
processedPolygons(results, drawing) ==
    LET reversedResults == Reversed(results)
        nextColorKey == ColorKeyAt(Len(reversedResults))
        currentDrawingPolygons ==
           [k \in 1..Len(drawing) |-> RenderedPolygon(drawing[k], -1, nextColorKey, TRUE)]
    IN currentDrawingPolygons \o SearchPolygonsFrom(reversedResults, 0, Len(results))

\* the polygons of the next search: one polygon, or none
NextSearchPolygons ==
    { <<Drawn(Len(searchResults) + 1, "Polygon")>>, <<>> }

\* the parent adds a search in front of the history and empties the drawing
LayerNewSearch ==
    /\ Len(searchResults) < MaxLayerSearches
    /\ \E polygons \in NextSearchPolygons :
          searchResults' = PrependSearch([polygons |-> polygons], searchResults)
    /\ currentDrawing' = <<>>
    /\ rendered' = processedPolygons(searchResults', currentDrawing')
    /\ UNCHANGED <<routeVars, aggVars, pageVars, containerVars, ingestVars, recentVars, clientCall>>

\* the user draws a polygon
LayerDraw ==
    /\ currentDrawing = <<>>
    /\ currentDrawing' = <<Drawn(0, "Polygon")>>
    /\ rendered' = processedPolygons(searchResults, currentDrawing')
    /\ UNCHANGED <<searchResults, routeVars, aggVars, pageVars, containerVars,
                   ingestVars, recentVars, clientCall>>

\* the user clears the drawing
LayerClear ==
    /\ currentDrawing # <<>>
    /\ currentDrawing' = <<>>
    /\ rendered' = processedPolygons(searchResults, currentDrawing')
    /\ UNCHANGED <<searchResults, routeVars, aggVars, pageVars, containerVars,
                   ingestVars, recentVars, clientCall>>

LayerInit ==
    /\ db = {}
    /\ RouteIdle
    /\ AggIdle
    /\ PageIdle
    /\ ClientIdle
    /\ ContainerIdle
    /\ IngestIdle
    /\ RecentIdle
    /\ LayerIdle

LayerNext == LayerNewSearch \/ LayerDraw \/ LayerClear

LayerSpec == LayerInit /\ [][LayerNext]_vars

----------------------------------------------------------------------------
(* MapContainer: its own list of drawn polygons and its search button.     *)
(* onSearchRegion is the parent's callback; its promise resolves or        *)
(* rejects.  "Search Region" is rendered while polygons are drawn and is   *)
(* disabled while isLoading; "Clear" is rendered while polygons are drawn. *)

\* handlePolygonChange of MapContainer: an event of the drawing tool
McPolygonChange ==
    /\ \/ /\ mcNextFeatureId <= MaxFeatures
          /\ \E g \in GeometryTypes :
                mcDrawingPolygons' =
                   handlePolygonChange(mcDrawingPolygons, Drawn(mcNextFeatureId, g), "create")
          /\ mcNextFeatureId' = mcNextFeatureId + 1
       \/ /\ \E id \in 1..MaxFeatures :
                /\ id < mcNextFeatureId
                /\ mcDrawingPolygons' =
                      handlePolygonChange(mcDrawingPolygons, Drawn(id, "Polygon"), "delete")
          /\ UNCHANGED mcNextFeatureId
       \/ /\ mcDrawingPolygons' = handlePolygonChange(mcDrawingPolygons, NullFeature, "clear")
          /\ UNCHANGED mcNextFeatureId
    /\ UNCHANGED <<isLoading, mcCall, mcOutcome, routeVars, aggVars, pageVars,
                   layerVars, ingestVars, recentVars, clientCall>>

\* clearDrawings: the button "Clear"
clearDrawings ==
    /\ mcDrawingPolygons # <<>>
    /\ mcDrawingPolygons' = <<>>
    /\ UNCHANGED <<isLoading, mcCall, mcOutcome, mcNextFeatureId, routeVars, aggVars,
                   pageVars, layerVars, ingestVars, recentVars, clientCall>>

\* the body of handleSearch up to its await onSearchRegion(drawingPolygons)
handleSearchCall ==
    /\ IF Len(mcDrawingPolygons) = 0
       THEN UNCHANGED <<isLoading, mcCall>>
       ELSE /\ isLoading' = TRUE
            /\ mcCall' = Append(mcCall, mcDrawingPolygons)
    /\ UNCHANGED <<mcDrawingPolygons, mcOutcome, mcNextFeatureId, routeVars, aggVars,
                   pageVars, layerVars, ingestVars, recentVars, clientCall>>

\* the button "Search This Region": rendered while there are drawn polygons,
\* disabled while isLoading
handleSearch ==
    /\ mcDrawingPolygons # <<>>
    /\ ~isLoading
    /\ handleSearchCall

\* onSearchRegion resolves: setDrawingPolygons([]), finally setIsLoading(false)
SearchResolved ==
    /\ mcCall # <<>>
    /\ mcCall' = Tail(mcCall)
    /\ mcDrawingPolygons' = <<>>
    /\ isLoading' = FALSE
    /\ mcOutcome' = "resolved"
    /\ UNCHANGED <<mcNextFeatureId, routeVars, aggVars, pageVars, layerVars,
                   ingestVars, recentVars, clientCall>>

\* onSearchRegion rejects, with setDrawingPolygons([]) in the finally block
SearchRejectedClearing ==
    /\ mcCall # <<>>
    /\ mcCall' = Tail(mcCall)
    /\ mcDrawingPolygons' = <<>>
    /\ isLoading' = FALSE
    /\ mcOutcome' = "rejected"
    /\ UNCHANGED <<mcNextFeatureId, routeVars, aggVars, pageVars, layerVars,
                   ingestVars, recentVars, clientCall>>

\* onSearchRegion rejects: catch logs, finally setIsLoading(false)
SearchRejected ==
    /\ mcCall # <<>>
    /\ mcCall' = Tail(mcCall)
    /\ isLoading' = FALSE
    /\ mcOutcome' = "rejected"
    /\ UNCHANGED <<mcDrawingPolygons, mcNextFeatureId, routeVars, aggVars, pageVars,
                   layerVars, ingestVars, recentVars, clientCall>>

ContainerInit ==
    /\ db = {}
    /\ RouteIdle
    /\ AggIdle
    /\ PageIdle
    /\ ClientIdle
    /\ LayerIdle
    /\ IngestIdle
    /\ RecentIdle
    /\ ContainerIdle

ContainerNext ==
    \/ McPolygonChange
    \/ clearDrawings
    \/ handleSearch
    \/ SearchResolved
    \/ SearchRejected

ContainerSpec == ContainerInit /\ [][ContainerNext]_vars

----------------------------------------------------------------------------
(* The API client searchByPolygons, and the three search entry points      *)
(* called directly: fetchPolygonListings of Home, handleSearch of          *)
(* MapContainer and searchByPolygons, each with and without polygons.      *)
(* clientCall keeps the argument polygons, the message of the error thrown *)
(* and the fetch requests issued.                                          *)

\* the argument polygons of a call
ClientPolygons ==
    { <<>>, <<Drawn(1, "Polygon")>>, <<Drawn(1, "Polygon"), Drawn(2, "Polygon")>> }

\* the argument filters; FALSE and 0 also stand for a field left out
ClientFilters ==
    [assumable : BOOLEAN, minPrice : {0, 100000}, maxPrice : {0, 500000}, limit : {0, 10}]

\* the URLSearchParams built from the filters, in the order appended
queryParams(filters) ==
    (IF filters.assumable THEN << <<"assumable", "true">> >> ELSE <<>>)
    \o (IF filters.minPrice # 0
        THEN << <<"minPrice", ToString(filters.minPrice)>> >> ELSE <<>>)
    \o (IF filters.maxPrice # 0
        THEN << <<"maxPrice", ToString(filters.maxPrice)>> >> ELSE <<>>)
    \o (IF filters.limit # 0
        THEN << <<"limit", ToString(filters.limit)>> >> ELSE <<>>)

\* the fetch issued whatever the polygons
searchByPolygonsNoCheck(polygons, filters) ==
    [pc |-> "fetching", polygons |-> polygons, thrown |-> NULL,
     requests |-> << [query |-> queryParams(filters), body |-> polygons] >>]

\* searchByPolygons up to its await fetch(...)
searchByPolygons(polygons, filters) ==
    IF Len(polygons) = 0
    THEN [pc |-> "thrown", polygons |-> polygons,
          thrown |-> "At least one polygon is required", requests |-> <<>>]
    ELSE [pc |-> "fetching", polygons |-> polygons, thrown |-> NULL,
          requests |-> << [query |-> queryParams(filters), body |-> polygons] >>]

\* a caller calls searchByPolygons
CallSearchByPolygons ==
    /\ clientCall.pc = "idle"
    /\ \E polygons \in ClientPolygons, filters \in ClientFilters :
          clientCall' = searchByPolygons(polygons, filters)
    /\ UNCHANGED <<routeVars, aggVars, pageVars, containerVars, layerVars, ingestVars,
                   recentVars>>

\* the fetch of searchByPolygons resolves with a 200 response
ClientFetchOk ==
    /\ clientCall.pc = "fetching"
    /\ clientCall' = [clientCall EXCEPT !.pc = "returned"]
    /\ UNCHANGED <<routeVars, aggVars, pageVars, containerVars, layerVars, ingestVars,
                   recentVars>>

\* the fetch of searchByPolygons resolves with a response that is not OK
ClientFetchNotOk ==
    /\ clientCall.pc = "fetching"
    /\ \E e \in ServerErrors :
          clientCall' = [clientCall EXCEPT !.pc = "thrown", !.thrown = FailureMessage(e)]
    /\ UNCHANGED <<routeVars, aggVars, pageVars, containerVars, layerVars, ingestVars,
                   recentVars>>

\* Home's fetchPolygonListings called, whatever the page shows
CallFetchPolygonListings ==
    /\ Len(inflight) < 2
    /\ fetchPolygonListingsCall

\* MapContainer's handleSearch called, whatever the container shows
CallHandleSearch ==
    /\ Len(mcCall) < 2
    /\ handleSearchCall

\* a search of the history of the page
OneSearch(polygons) ==
    [polygons |-> polygons, listings |-> <<>>, aggregations |-> OkResponse(<<>>).aggregations]

CallInit ==
    /\ db = {}
    /\ RouteIdle
    /\ AggIdle
    /\ LayerIdle
    /\ IngestIdle
    /\ RecentIdle
    /\ ClientIdle
    /\ drawingPolygons \in ClientPolygons
    /\ loading \in BOOLEAN
    /\ inflight = IF loading
                  THEN << [body |-> <<Drawn(1, "Polygon")>>,
                           closure |-> <<Drawn(1, "Polygon")>>] >>
                  ELSE <<>>
    /\ searchHistory \in { <<>>, <<OneSearch(<<Drawn(1, "Polygon")>>)>> }
    /\ activeSearchIndex = 0
    /\ error \in {NULL, "Failed to fetch"}
    /\ received = NoReceived
    /\ nextFeatureId = MaxFeatures
    /\ lastEvent = DrawEvent("none", NullFeature, 0)
    /\ mcDrawingPolygons \in {<<>>, <<Drawn(1, "Polygon")>>}
    /\ isLoading \in BOOLEAN
    /\ mcCall = IF isLoading THEN << <<Drawn(1, "Polygon")>> >> ELSE <<>>
    /\ mcOutcome = "none"
    /\ mcNextFeatureId = MaxFeatures

CallNext ==
    \/ CallFetchPolygonListings
    \/ CallHandleSearch
    \/ CallSearchByPolygons
    \/ ClientFetchOk
    \/ ClientFetchNotOk

CallSpec == CallInit /\ [][CallNext]_vars

----------------------------------------------------------------------------
(* The two search components with their requests completing.  Home and     *)
(* MapContainer are separate components, MapContainer is not part of       *)
(* Home's tree: one of them is mounted and the other stays in its initial  *)
(* state.  A fetch and a call of onSearchRegion that are outstanding       *)
(* eventually resolve or reject.                                           *)

MountedInit == PageInit

MountedNext ==
    \/ ContainerIdle /\ PageNext
    \/ PageIdle /\ ContainerNext

FetchSettles == FetchOk \/ FetchNotOk \/ FetchRejected

CallSettles == SearchResolved \/ SearchRejected

MountedSpec ==
    /\ MountedInit
    /\ [][MountedNext]_vars
    /\ WF_vars(FetchSettles)
    /\ WF_vars(CallSettles)

----------------------------------------------------------------------------
(* Vocabulary of the properties of the route *)

Success == pc = "done" /\ resp.status = 200

Polygons == polygonsOf(req)

ReturnedIds == {resp.listings[i].id : i \in 1..Len(resp.listings)}

Occurrences(id) == Cardinality({i \in 1..Len(resp.listings) : resp.listings[i].id = id})

RingX(ring) == {ring[i][1] : i \in 1..Len(ring)}
RingY(ring) == {ring[i][2] : i \in 1..Len(ring)}

\* the point of l lies strictly inside the rectangle drawn by the ring
InsideRing(l, ring) ==
    /\ \E a \in RingX(ring) : a < l.longitude
    /\ \E a \in RingX(ring) : a > l.longitude
    /\ \E a \in RingY(ring) : a < l.latitude
    /\ \E a \in RingY(ring) : a > l.latitude

\* the point of l lies outside the rectangle drawn by the ring, edges included
OutsideRing(l, ring) ==
    \/ \A a \in RingX(ring) : a > l.longitude
    \/ \A a \in RingX(ring) : a < l.longitude
    \/ \A a \in RingY(ring) : a > l.latitude
    \/ \A a \in RingY(ring) : a < l.latitude

\* the point of l lies in the interior of the polygon e: inside its outer
\* ring, and outside every hole
PointWithin(l, e) ==
    /\ InsideRing(l, e.ring)
    /\ \A h \in 1..Len(e.holes) : OutsideRing(l, e.holes[h])

\* the point of l lies outside the polygon e: outside its outer ring, or
\* inside one of its holes
PointOutside(l, e) ==
    \/ OutsideRing(l, e.ring)
    \/ \E h \in 1..Len(e.holes) : InsideRing(l, e.holes[h])

WithinSome(l) == \E i \in 1..Len(Polygons) : PointWithin(l, Polygons[i])
OutsideAll(l) == \A i \in 1..Len(Polygons) : PointOutside(l, Polygons[i])
OutsideAllOuterRings(l) == \A i \in 1..Len(Polygons) : OutsideRing(l, Polygons[i].ring)

IsNumeral(s) == s \in DOMAIN NumeralValue

\* the filters as a caller states them in the query string
RequestedAssumable(l) == req.assumable = "true" => l.isAssumable
RequestedMinPrice(l) == IsNumeral(req.minPrice) => l.price >= NumeralValue[req.minPrice]
RequestedMaxPrice(l) == IsNumeral(req.maxPrice) => l.price <= NumeralValue[req.maxPrice]
RequestedFilters(l) == RequestedAssumable(l) /\ RequestedMinPrice(l) /\ RequestedMaxPrice(l)

RequestedLimit == IF IsNumeral(req.limit) THEN NumeralValue[req.limit] ELSE DefaultLimit

AllWithinReturned == \A l \in db : WithinSome(l) /\ RequestedFilters(l) => l.id \in ReturnedIds
NoneOutsideReturned == \A l \in db : OutsideAll(l) => l.id \notin ReturnedIds
NoneOutsideOuterRingsReturned == \A l \in db : OutsideAllOuterRings(l) => l.id \notin ReturnedIds

----------------------------------------------------------------------------
(* C1 *)

\* C1 as stated: a successful polygon search returns every listing whose
\* point falls within at least one submitted polygon and passes the
\* filters, and no listing whose point lies outside every polygon.
C1_AsStated == Success => AllWithinReturned /\ NoneOutsideReturned

\* C1, amended: a successful polygon search returns no listing whose point
\* lies outside the outer ring of every submitted polygon (holes are not
\* sent to the database) and at most `limit` listings (query parameter,
\* 1000 by default); whenever it returns fewer than `limit` listings, these
\* include every listing whose point falls within at least one polygon and
\* that passes the filters.
C1_PolygonSearch ==
    Success =>
        /\ NoneOutsideOuterRingsReturned
        /\ Len(resp.listings) <= RequestedLimit
        /\ Len(resp.listings) < RequestedLimit => AllWithinReturned

\* a search over two polygons that returns a listing while the table also
\* holds a listing outside both
C1_Witness ==
    /\ Success
    /\ Len(Polygons) = 2
    /\ ReturnedIds # {}
    /\ \E l \in db : OutsideAll(l)
    /\ \E l \in db : WithinSome(l) /\ ~PointWithin(l, Polygons[1])

----------------------------------------------------------------------------
(* C2 *)

\* C2: in a search over several polygons every returned listing appears
\* exactly once in the response, also when its point lies inside several
\* of the polygons.
C2_UnionNoDuplicates ==
    Success /\ Len(Polygons) >= 2 => \A id \in ReturnedIds : Occurrences(id) = 1

\* a listing inside two different submitted polygons is returned
C2_Witness ==
    /\ Success
    /\ Len(Polygons) = 2
    /\ Polygons[1] # Polygons[2]
    /\ \E l \in db : /\ PointWithin(l, Polygons[1])
                     /\ PointWithin(l, Polygons[2])
                     /\ l.id \in ReturnedIds

----------------------------------------------------------------------------
(* C3 *)

AggDone == aggPc = "done"

\* the non-null interest rates of the assumable rows of the argument
InputRatePositions == {i \in 1..Len(aggIn) : aggIn[i].isAssumable /\ aggIn[i].rate # NoRate}

CountBelow(v) == Cardinality({i \in InputRatePositions : aggIn[i].rate < v})
CountUpTo(v) == Cardinality({i \in InputRatePositions : aggIn[i].rate <= v})

\* the k-th smallest of these rates, by counting
KthRate(k) ==
    CHOOSE v \in {aggIn[i].rate : i \in InputRatePositions} : CountBelow(v) < k /\ k <= CountUpTo(v)

MedianByRank ==
    LET n == Cardinality(InputRatePositions)
    IN IF n = 0 THEN Frac(0, 1)
       ELSE IF n % 2 = 1 THEN Frac(KthRate((n + 1) \div 2), 1)
       ELSE Frac(KthRate(n \div 2) + KthRate(n \div 2 + 1), 2)

\* C3: medianLoanRate is the median of the non-null interest rates of the
\* assumable listings: the middle one in ascending order when their number
\* is odd, the mean of the two middle ones when it is even, 0 when there
\* is none.
C3_Median ==
    AggDone =>
        /\ aggOut.medianLoanRate.den > 0
        /\ FracEq(aggOut.medianLoanRate, MedianByRank)

\* three rates that arrive in descending order, with the median in no
\* middle position of the argument
C3_Witness ==
    /\ AggDone
    /\ Cardinality(InputRatePositions) = 3
    /\ Len(aggIn) = 3
    /\ aggIn[1].rate > aggIn[2].rate
    /\ aggIn[2].rate < aggIn[3].rate

----------------------------------------------------------------------------
(* C4 *)

SumOfCounts(f) ==
    LET RECURSIVE Sum(_)
        Sum(K) == IF K = {} THEN 0
                  ELSE LET k == CHOOSE x \in K : TRUE IN f[k] + Sum(K \ {k})
    IN Sum(DOMAIN f)

\* C4: in a successful response totalCount = totalListings = the number of
\* listings returned, assumableListings is the number of returned listings
\* that are assumable, and the counts of propertyTypes sum to totalListings,
\* a listing without property type being counted under 'Unknown'.
C4_Counts ==
    Success =>
        LET n == Len(resp.listings)
            agg == resp.aggregations
            untyped == {i \in 1..n : resp.listings[i].propertyType = ""}
        IN /\ resp.totalCount = n
           /\ agg.totalListings = n
           /\ agg.assumableListings = Cardinality({i \in 1..n : resp.listings[i].isAssumable})
           /\ agg.assumableListings <= agg.totalListings
           /\ SumOfCounts(agg.propertyTypes) = n
           /\ \A i \in 1..n : resp.listings[i].propertyType # "" =>
                 resp.listings[i].propertyType \in DOMAIN agg.propertyTypes
           /\ untyped # {} =>
                 /\ "Unknown" \in DOMAIN agg.propertyTypes
                 /\ agg.propertyTypes["Unknown"] >= Cardinality(untyped)

\* two listings returned, one of them assumable, the other without
\* property type
C4_Witness ==
    /\ Success
    /\ Len(resp.listings) = 2
    /\ \E i \in 1..2 : resp.listings[i].propertyType = "" /\ ~resp.listings[i].isAssumable
    /\ \E i \in 1..2 : resp.listings[i].propertyType # "" /\ resp.listings[i].isAssumable

----------------------------------------------------------------------------
(* C5 *)

\* the sum of the prices at the positions P of the argument, price by price
PriceTotal(P) ==
    LET prices == {aggIn[i].price : i \in P}
        RECURSIVE Sum(_)
        Sum(S) == IF S = {} THEN 0
                  ELSE LET v == CHOOSE x \in S : TRUE
                       IN v * Cardinality({i \in P : aggIn[i].price = v}) + Sum(S \ {v})
    IN Sum(prices)

AverageOver(P) == IF P = {} THEN Frac(0, 1) ELSE Frac(PriceTotal(P), Cardinality(P))

\* C5: avgPrice is the sum of the prices of all listings divided by their
\* number, avgAssumablePrice the same over the assumable listings; each is
\* 0 when its set of listings is empty, and nothing is divided by zero.
C5_Averages ==
    AggDone =>
        LET all == 1..Len(aggIn)
            assumable == {i \in all : aggIn[i].isAssumable}
        IN /\ aggOut.avgPrice.den > 0
           /\ aggOut.avgAssumablePrice.den > 0
           /\ FracEq(aggOut.avgPrice, AverageOver(all))
           /\ FracEq(aggOut.avgAssumablePrice, AverageOver(assumable))

\* listings of different prices, none of them assumable
C5_Witness ==
    /\ AggDone
    /\ Len(aggIn) = 3
    /\ \A i \in 1..3 : ~aggIn[i].isAssumable
    /\ aggIn[1].price # aggIn[2].price
    /\ aggOut.avgAssumablePrice = Frac(0, 1)

----------------------------------------------------------------------------
(* C6 *)

\* C6: with assumable=true every listing of the response is assumable and
\* assumableListings = totalListings; with the parameter absent or of any
\* other value assumability does not restrict the result: unless the limit
\* cuts the result, the listings that the same request without the
\* parameter selects are all returned.
C6_AssumableFilter ==
    Success =>
        /\ req.assumable = "true" =>
              /\ \A i \in 1..Len(resp.listings) : resp.listings[i].isAssumable
              /\ resp.aggregations.assumableListings = resp.aggregations.totalListings
        /\ req.assumable # "true" /\ Len(resp.listings) < RequestedLimit =>
              \A l \in db :
                 WithinSome(l) /\ RequestedMinPrice(l) /\ RequestedMaxPrice(l)
                    => l.id \in ReturnedIds

\* assumable=true drops a listing inside the polygon and returns another
C6_Witness ==
    /\ Success
    /\ req.assumable = "true"
    /\ req.limit = NULL
    /\ resp.listings # <<>>
    /\ \E l \in db : WithinSome(l) /\ ~l.isAssumable

----------------------------------------------------------------------------
(* C7 *)

\* C7 as stated: when minPrice and/or maxPrice is supplied, every returned
\* listing has price >= minPrice and price <= maxPrice.
C7_PriceFilter ==
    Success => \A i \in 1..Len(resp.listings) :
                  /\ RequestedMinPrice(resp.listings[i])
                  /\ RequestedMaxPrice(resp.listings[i])

----------------------------------------------------------------------------
(* C8 *)

BadElement(e) == e.isNull \/ e.geomType # "Polygon" \/ ~e.hasRing

BadPositions == {i \in 1..Len(req.elems) : BadElement(req.elems[i])}

\* C8: a request whose body is not valid JSON, is an empty array, or holds
\* an element that is no feature of geometry type 'Polygon' with an array
\* as first ring is answered with status 400, naming the lowest invalid
\* index for a bad element, and no database query is issued for it.
C8_Validation ==
    pc = "done" /\ (req.bodyKind = "invalidJSON" \/ req.elems = <<>> \/ BadPositions # {}) =>
        /\ resp.status = 400
        /\ queries = 0
        /\ ~resp.hasPayload
        /\ BadPositions # {} =>
              /\ resp.index + 1 \in BadPositions
              /\ \A j \in BadPositions : resp.index + 1 <= j

\* a valid polygon followed by an invalid element
C8_Witness ==
    /\ pc = "done"
    /\ Len(req.elems) = 2
    /\ BadPositions = {2}
    /\ resp.status = 400
    /\ resp.index = 1

----------------------------------------------------------------------------
(* C9 *)

\* C9: when the database query throws, the route answers with status 500
\* and a body carrying an error message and details, never with a
\* listings/aggregations payload.
C9_DatabaseError ==
    pc = "done" /\ dbOutcome = "error" =>
        /\ resp.status = 500
        /\ resp.error # ""
        /\ resp.details
        /\ ~resp.hasPayload
        /\ queries = 1

\* the query of a search over several polygons throws
C9_Witness ==
    /\ pc = "done"
    /\ dbOutcome = "error"
    /\ Len(Polygons) = 2
    /\ resp.status = 500

----------------------------------------------------------------------------
(* C10 *)

\* a fetch settles with a 200 response in this step
SearchSucceeds == Len(inflight') < Len(inflight) /\ received'.ok

\* C10: after each successful search exactly one new SearchResult, holding
\* the polygons sent in the request and the listings and aggregations of
\* the response, stands at the front of searchHistory, the older entries
\* follow it unchanged, and activeSearchIndex is 0.
C10_NewSearchAtFront ==
    [][ SearchSucceeds =>
          /\ Len(searchHistory') = Len(searchHistory) + 1
          /\ Tail(searchHistory') = searchHistory
          /\ searchHistory'[1].polygons = Head(inflight).body
          /\ searchHistory'[1].listings = received'.data.listings
          /\ searchHistory'[1].aggregations = received'.data.aggregations
          /\ activeSearchIndex' = 0 ]_vars

\* a second search has succeeded, with other polygons and another result
\* than the first
C10_Witness ==
    /\ Len(searchHistory) = 2
    /\ received.ok
    /\ inflight = <<>>
    /\ activeSearchIndex = 0
    /\ searchHistory[1].listings = received.data.listings
    /\ searchHistory[1].listings # searchHistory[2].listings
    /\ searchHistory[1].polygons # searchHistory[2].polygons

----------------------------------------------------------------------------
(* C11 *)

\* C11: searchHistory only grows.  In every step of the page (navigating,
\* drawing, deleting or clearing polygons, a failed search, a successful
\* search) the SearchResults that were in the history are still there,
\* unaltered and in the same order, behind the entries that the step put in
\* front of them.
C11_HistoryOnlyGrows ==
    [][ \E k \in 0..Len(searchHistory') :
           /\ Len(searchHistory') = Len(searchHistory) + k
           /\ SubSeq(searchHistory', k + 1, Len(searchHistory')) = searchHistory ]_vars

\* two searches are in the history, the older one is active, polygons are
\* drawn and the last search failed
C11_Witness ==
    /\ Len(searchHistory) = 2
    /\ searchHistory[1] # searchHistory[2]
    /\ activeSearchIndex = 1
    /\ drawingPolygons # <<>>
    /\ ~received.ok
    /\ error # NULL

----------------------------------------------------------------------------
(* C12 *)

\* the drawing tool emits an event in this step
EventEmitted == lastEvent'.parity # lastEvent.parity

\* the positions of the drawn polygons whose id is not id, and the k-th of them
KeptPositions(id) == {i \in 1..Len(drawingPolygons) : drawingPolygons[i].id # id}
KthKept(id, k) ==
    CHOOSE i \in KeptPositions(id) :
        Cardinality({j \in KeptPositions(id) : j < i}) = k - 1

\* C12: the list of drawn polygons follows the drawing tool's events.  A
\* 'create' event with a Polygon feature appends that feature at the end; a
\* 'create' event with another geometry leaves the list unchanged; a 'delete'
\* event removes exactly the polygons whose id is the feature's id, the
\* others keeping their order; a 'clear' event empties the list.
C12_DrawnPolygonsFollowEvents ==
    [][ EventEmitted =>
          LET e == lastEvent'
          IN /\ e.action = "create" /\ e.polygon.geomType = "Polygon" =>
                  /\ Len(drawingPolygons') = Len(drawingPolygons) + 1
                  /\ SubSeq(drawingPolygons', 1, Len(drawingPolygons)) = drawingPolygons
                  /\ drawingPolygons'[Len(drawingPolygons')] = e.polygon
             /\ e.action = "create" /\ e.polygon.geomType # "Polygon" =>
                  drawingPolygons' = drawingPolygons
             /\ e.action = "delete" =>
                  /\ Len(drawingPolygons') = Cardinality(KeptPositions(e.polygon.id))
                  /\ \A k \in 1..Len(drawingPolygons') :
                        drawingPolygons'[k] = drawingPolygons[KthKept(e.polygon.id, k)]
             /\ e.action = "clear" => drawingPolygons' = <<>> ]_vars

\* the second of three drawn polygons has just been deleted
C12_Witness ==
    /\ lastEvent.action = "delete"
    /\ lastEvent.polygon.id = 2
    /\ Len(drawingPolygons) = 2
    /\ drawingPolygons[1].id = 1
    /\ drawingPolygons[2].id = 3

----------------------------------------------------------------------------
(* C13 *)

\* the call of caller c completes a record without error in this step
RecordProcessed(c) == runs'[c].processed = runs[c].processed + 1

\* the call of caller c writes the Listing of its record in this step
ListingWritten(c) == runs[c].pc = "write" /\ runs'[c].pc = "mark"

\* the record that the call of caller c is at
CurrentRecord(c) == runs[c].batch[runs[c].i]

\* C13: ingestion upserts.  When processBatch writes the Listing of a raw
\* record, a Listing of that id is replaced if there was one and added
\* otherwise, and no other Listing changes; when it completes a raw record
\* that had no processedAt without error, exactly one Listing with the
\* record's id exists, it holds the data derived from the record, and the
\* raw record has status COMPLETED and processedAt set.
C13_Upsert ==
    [][ \A c \in Callers :
          /\ ListingWritten(c) =>
                LET id == CurrentRecord(c).id
                IN /\ listingTable' \ RowsWithId(listingTable', id)
                        = listingTable \ RowsWithId(listingTable, id)
                   /\ Cardinality(listingTable') =
                        IF RowsWithId(listingTable, id) # {}
                        THEN Cardinality(listingTable)
                        ELSE Cardinality(listingTable) + 1
          /\ RecordProcessed(c) =>
                LET rec == CurrentRecord(c)
                IN /\ ~rec.processedAt
                   /\ Cardinality(RowsWithId(listingTable', rec.id)) = 1
                   /\ \A row \in RowsWithId(listingTable', rec.id) :
                         /\ row.price = getNumberOrZero(rec.rawData.price)
                         /\ row.latitude = getNumberOrZero(rec.rawData.latitude)
                         /\ row.longitude = getNumberOrZero(rec.rawData.longitude)
                         /\ row.status = parseStatus(rec.rawData.status)
                   /\ rawListingData'[rec.id].status = "COMPLETED"
                   /\ rawListingData'[rec.id].processedAt ]_vars

\* one call has gone through both records without error; the Listing of
\* the second record was there before and was
\* updated
C13_Witness ==
    /\ runs["A"].pc = "returned"
    /\ runs["A"].processed = 2
    /\ runs["A"].failed = 0
    /\ runs["A"].batch[1].id = 1
    /\ runs["A"].existing
    /\ runs["B"].pc = "idle"
    /\ listingTable = {processRawListing(rawListingData[id]) : id \in RawIds}
    /\ StaleListing(2) \notin listingTable
    /\ \A id \in RawIds : rawListingData[id].status = "COMPLETED"

----------------------------------------------------------------------------
(* C14 *)

RecentOk == recentResp.status = 200

\* all rows of the Listing table of the recent route
RecentRows == UNION {{RecentRow(t, k) : k \in 1..recentTable[t]} : t \in CreatedAts}

ReturnedRecent == {recentResp.listings[i] : i \in 1..Len(recentResp.listings)}

\* C14: GET /api/listings/recent returns at most 100 listings, ordered by
\* createdAt descending: the 100 most recently created listings (all of
\* them when there are fewer), most recent first.
C14_RecentListings ==
    RecentOk =>
       LET out == recentResp.listings
       IN /\ Len(out) <= 100
          /\ Len(out) = IF Cardinality(RecentRows) < 100 THEN Cardinality(RecentRows) ELSE 100
          /\ ReturnedRecent \subseteq RecentRows
          /\ Cardinality(ReturnedRecent) = Len(out)
          /\ \A i \in 1..(Len(out) - 1) : out[i].createdAt >= out[i + 1].createdAt
          /\ \A row \in RecentRows \ ReturnedRecent :
                \A i \in 1..Len(out) : row.createdAt <= out[i].createdAt

\* more than 100 listings, of three createdAt values; the response holds
\* the newest 99, the only listing of the second createdAt and none of the
\* oldest
C14_Witness ==
    /\ RecentOk
    /\ recentTable[3] = 99
    /\ recentTable[2] = 1
    /\ recentTable[1] = 101
    /\ Len(recentResp.listings) = 100
    /\ recentResp.listings[1].createdAt = 3
    /\ recentResp.listings[100].createdAt = 2

----------------------------------------------------------------------------
(* C15, C16 *)

\* the rendered polygons of the searches of the history
RenderedSearchPolygons(items) ==
    {items[i] : i \in {j \in 1..Len(items) : ~items[j].isCurrentDrawing}}

\* C15: region colors are consistent.  The polygons of the first search made
\* are rendered 'alpha', those of the second 'beta', of the third 'gamma',
\* and the color key of a polygon of the history is the same after every
\* step as before it, whatever searches are added.
C15_ConsistentColors ==
    [][ /\ \A old \in RenderedSearchPolygons(rendered) :
             \A new \in RenderedSearchPolygons(rendered') :
                new.polygon = old.polygon => new.colorKey = old.colorKey
        /\ \A new \in RenderedSearchPolygons(rendered') :
             /\ new.polygon.id = 1 => new.colorKey = "alpha"
             /\ new.polygon.id = 2 => new.colorKey = "beta"
             /\ new.polygon.id = 3 => new.colorKey = "gamma" ]_vars

\* nine searches have been made, each with a polygon, and all are rendered
C15_Witness ==
    /\ Len(searchResults) = 9
    /\ Cardinality(RenderedSearchPolygons(rendered)) = 9
    /\ currentDrawing # <<>>

\* C16: region colors are distinct.  Any two rendered polygons that belong
\* to different searches of the history have different color keys.
C16_DistinctColors ==
    \A a, b \in RenderedSearchPolygons(rendered) :
       a.searchIndex # b.searchIndex => a.colorKey # b.colorKey

----------------------------------------------------------------------------
(* C17 *)

\* C17: Older/Newer navigation.  "Older" increases the active index by
\* exactly 1 when it is below length-1 and otherwise changes nothing;
\* "Newer" decreases it by exactly 1 when it is above 0 and otherwise
\* changes nothing; neither touches the history; and from any search that
\* is not the oldest, Older followed by Newer gives the same index again.
C17_OlderNewer ==
    [][ /\ switchToPreviousSearch =>
             /\ activeSearchIndex' =
                   IF activeSearchIndex < Len(searchHistory) - 1
                   THEN activeSearchIndex + 1 ELSE activeSearchIndex
             /\ searchHistory' = searchHistory
        /\ switchToNextSearch =>
             /\ activeSearchIndex' =
                   IF activeSearchIndex > 0
                   THEN activeSearchIndex - 1 ELSE activeSearchIndex
             /\ searchHistory' = searchHistory
        /\ activeSearchIndex < Len(searchHistory) - 1 =>
             NewerIndex(OlderIndex(activeSearchIndex, Len(searchHistory)))
                = activeSearchIndex ]_vars

\* the oldest of three searches is active: Older has been pressed twice
C17_Witness ==
    /\ Len(searchHistory) = 3
    /\ activeSearchIndex = 2
    /\ inflight = <<>>

----------------------------------------------------------------------------
(* C20 *)

\* C20: activeSearchIndex is a valid index of searchHistory: between 0 and
\* length-1 whenever the history is not empty, and 0 when it is empty.
C20_ValidActiveIndex ==
    IF searchHistory = <<>>
    THEN activeSearchIndex = 0
    ELSE 0 <= activeSearchIndex /\ activeSearchIndex <= Len(searchHistory) - 1

\* the older of two searches is active while a third search is in flight,
\* after a search that failed
C20_Witness ==
    /\ Len(searchHistory) = 2
    /\ activeSearchIndex = 1
    /\ inflight # <<>>
    /\ ~received.ok
    /\ received.message # NULL

----------------------------------------------------------------------------
(* C18 *)

SearchInFlight == mcCall # <<>>

\* the members of a list of polygons
PolygonSet(polygons) == {polygons[i] : i \in 1..Len(polygons)}

\* C18 as stated: while a search started from MapContainer is in flight,
\* the polygons handed to it stay in drawingPolygons.
C18_AsStated ==
    SearchInFlight => PolygonSet(Head(mcCall)) \subseteq PolygonSet(mcDrawingPolygons)

\* C18: handleSearch hands the drawn polygons to onSearchRegion and leaves
\* drawingPolygons as it is; while the search is in flight the list changes
\* only by an event of the drawing tool or by the button Clear; when
\* onSearchRegion resolves the list is emptied, and when it rejects the
\* list is left as it is.
C18_SearchKeepsPolygons ==
    [][ /\ ~SearchInFlight /\ SearchInFlight' =>
             /\ mcDrawingPolygons' = mcDrawingPolygons
             /\ Head(mcCall') = mcDrawingPolygons
        /\ SearchInFlight /\ SearchInFlight' /\ mcDrawingPolygons' # mcDrawingPolygons =>
             McPolygonChange \/ clearDrawings
        /\ SearchInFlight /\ ~SearchInFlight' =>
             /\ mcOutcome' = "resolved" => mcDrawingPolygons' = <<>>
             /\ mcOutcome' = "rejected" => mcDrawingPolygons' = mcDrawingPolygons ]_vars

\* a search has been rejected and the two polygons handed to it are still
\* drawn
C18_Witness ==
    /\ mcOutcome = "rejected"
    /\ ~SearchInFlight
    /\ ~isLoading
    /\ Len(mcDrawingPolygons) = 2
    /\ mcNextFeatureId = 3

----------------------------------------------------------------------------
(* C19 *)

\* the call of caller c stands at a record of its batch whose processedAt
\* is set
AtProcessedRecord(c) ==
    /\ runs[c].i <= Len(runs[c].batch)
    /\ runs[c].batch[runs[c].i].processedAt

\* C19: processBatch skips every raw record whose processedAt is already
\* set.  The step it takes at such a record goes on to the next record,
\* writes no Listing, updates no raw record and counts the record neither
\* as processed nor as failed.
C19_SkipsProcessed ==
    [][ \A c \in Callers :
          AtProcessedRecord(c) /\ runs'[c] # runs[c] =>
             /\ runs'[c].i = runs[c].i + 1
             /\ runs'[c].pc = "loop"
             /\ runs'[c].processed = runs[c].processed
             /\ runs'[c].failed = runs[c].failed
             /\ listingTable' = listingTable
             /\ rawListingData' = rawListingData ]_vars

\* a call has returned from a batch whose first record had processedAt set
\* and whose second record had not: it counted one record, and there is
\* still no Listing of the first
C19_Witness ==
    /\ runs["A"].pc = "returned"
    /\ Len(runs["A"].batch) = 2
    /\ runs["A"].batch[1].processedAt
    /\ ~runs["A"].batch[2].processedAt
    /\ runs["A"].processed = 1
    /\ runs["A"].failed = 0
    /\ runs["B"].pc = "idle"
    /\ RowsWithId(listingTable, runs["A"].batch[1].id) = {}

----------------------------------------------------------------------------
(* C21 *)

\* the listings handed to the map and to the panel
ShownListings == listingsOf(searchHistory, activeSearchIndex)

----------------------------------------------------------------------------
(* C22 *)

\* a fetch settles without a 200 response in this step
SearchFails == Len(inflight') < Len(inflight) /\ ~received'.ok

\* a fetch is sent in this step
SearchStarts == Len(inflight') > Len(inflight)

\* C22: a polygon search that fails, by a network error or by a response
\* that is not OK, leaves searchHistory, activeSearchIndex and
\* drawingPolygons unchanged and sets the error message, to the error field
\* of the server's response when it has one; the error message is null
\* again when the next search starts.
C22_FailedSearch ==
    [][ /\ SearchFails =>
             /\ searchHistory' = searchHistory
             /\ activeSearchIndex' = activeSearchIndex
             /\ drawingPolygons' = drawingPolygons
             /\ error' # NULL
             /\ error' = received'.message
             /\ received'.data.error # "" => error' = received'.data.error
        /\ SearchStarts => error' = NULL ]_vars

\* the second search failed with the server's message; the first search
\* is still the only one in the history and the polygon is still drawn
C22_Witness ==
    /\ ~received.ok
    /\ received.data.error = "Database query failed"
    /\ error = "Database query failed"
    /\ inflight = <<>>
    /\ ~loading
    /\ Len(searchHistory) = 1
    /\ drawingPolygons # <<>>

\* the three entry points called with no polygon
PageCalledEmpty == fetchPolygonListingsCall /\ Len(drawingPolygons) = 0
ContainerCalledEmpty == handleSearchCall /\ Len(mcDrawingPolygons) = 0
ClientCalledEmpty == clientCall.pc = "idle" /\ clientCall'.pc # "idle"
                     /\ Len(clientCall'.polygons) = 0

\* C23: a search requested with no drawn polygon issues no request: the
\* page sets the error "Please draw a polygon on the map first" and leaves
\* loading, the history and the outstanding requests alone; handleSearch of
\* MapContainer leaves isLoading and the calls of onSearchRegion alone; and
\* searchByPolygons throws "At least one polygon is required" with no fetch.
C23_NoPolygonNoRequest ==
    [][ /\ PageCalledEmpty =>
              /\ error' = "Please draw a polygon on the map first"
              /\ UNCHANGED <<loading, searchHistory, inflight>>
        /\ ContainerCalledEmpty => UNCHANGED <<isLoading, mcCall>>
        /\ ClientCalledEmpty =>
              /\ clientCall'.pc = "thrown"
              /\ clientCall'.thrown = "At least one polygon is required"
              /\ clientCall'.requests = <<>> ]_vars

\* all three were asked to search with no polygon, and nothing was requested
\* that was not already under way
C23_Witness ==
    /\ drawingPolygons = <<>>
    /\ error = "Please draw a polygon on the map first"
    /\ inflight = <<>>
    /\ mcDrawingPolygons = <<>>
    /\ mcCall = <<>>
    /\ clientCall.pc = "thrown"
    /\ clientCall.polygons = <<>>
    /\ clientCall.requests = <<>>

\* the user removes drawn polygons in this step: a "delete" or "clear"
\* event of the drawing tool, or the buttons "New Region" and "Clear"
UserRemoves == PolygonDelete \/ PolygonClear \/ ClearDrawing

\* the polygon is part of the polygons of some search of the history
InHistory(p, history) ==
    \E i \in DOMAIN history : \E k \in DOMAIN history[i].polygons :
        history[i].polygons[k] = p

\* C24: no drawn polygon is silently lost: a polygon received through a
\* "create" event is in drawingPolygons, and a polygon of drawingPolygons
\* is, after any step in which the user does not delete or clear, still in
\* drawingPolygons or part of a search of the history - a polygon drawn
\* while a search request is in flight included.
C24_NoPolygonLost ==
    [][ /\ (PolygonCreate /\ lastEvent'.polygon.geomType = "Polygon") =>
              PolygonSet(drawingPolygons') = PolygonSet(drawingPolygons)
                                                \cup {lastEvent'.polygon}
        /\ ~UserRemoves =>
              \A p \in PolygonSet(drawingPolygons) :
                  \/ p \in PolygonSet(drawingPolygons')
                  \/ InHistory(p, searchHistory') ]_vars

\* a request of the mounted component is outstanding
SearchOutstanding == inflight # <<>> \/ mcCall # <<>>

\* C25: the loading flag is true exactly while a polygon search request is
\* outstanding, in Home (loading) and in MapContainer (isLoading): it is
\* true from the start of the search, never false while the request is in
\* flight, and eventually false again once the request has completed, with
\* success or with failure.
C25_LoadingWhileOutstanding ==
    /\ [](loading <=> inflight # <<>>)
    /\ [](isLoading <=> mcCall # <<>>)
    /\ (loading ~> ~loading)
    /\ (isLoading ~> ~isLoading)

\* after a search that succeeded, a second one has failed and loading is
\* false again
C25_Witness ==
    /\ ~loading
    /\ inflight = <<>>
    /\ ~received.ok
    /\ received.message # NULL
    /\ Len(searchHistory) = 1

\* the error of prisma.listing.create when a Listing of the id exists
UniqueViolation == "Unique constraint failed on the fields: (id)"

\* C26: when two calls of processBatch process the same unprocessed raw
\* record concurrently, find-then-create/update still behaves as an upsert:
\* neither call fails on the Listing already being there, at most one
\* Listing of the id exists, and the record is not left FAILED by it.
C26_ConcurrentUpsert ==
    /\ \A c \in Callers : runs[c].message # UniqueViolation
    /\ \A id \in RawIds :
          /\ Cardinality(RowsWithId(listingTable, id)) <= 1
          /\ rawListingData[id].status = "FAILED" =>
                rawListingData[id].errorMessage # UniqueViolation

\* processRawListing has returned the Listing of the record the call is at
ListingProduced(c) == runs[c].pc = "find"

\* the raw value is missing, null or not convertible to a number
NotANumber(val) == val.t \in {"undefined", "null"} \/ ToNumber(val).nan

\* the raw status, normalized, is one of the statuses of a Listing
KnownStatus(val) ==
    /\ val.t \notin {"undefined", "null"}
    /\ UpperTrim[val.v] \in ListingStatuses

\* C27: a Listing produced by processRawListing has numbers for latitude,
\* longitude and price, never null or NaN: 0 when the raw value is
\* missing, null or not convertible to a number, the converted value
\* otherwise; its status is one of ACTIVE, PENDING, SOLD, WITHDRAWN,
\* EXPIRED: the normalized raw status when that is one of them, ACTIVE for
\* any other.
C27_NumbersAndStatus ==
    \A c \in Callers :
       ListingProduced(c) =>
          LET raw == CurrentRecord(c).rawData
              listing == runs[c].listingData
          IN /\ \A f \in {"price", "latitude", "longitude"} :
                   LET x == OrZero(getNumber(raw[f], Num(0)))
                   IN /\ x.k = "number"
                      /\ listing[f] = x.v
                      /\ NotANumber(raw[f]) => listing[f] = 0
                      /\ ~NotANumber(raw[f]) => listing[f] = ToNumber(raw[f]).v
             /\ listing.status \in ListingStatuses
             /\ KnownStatus(raw.status) => listing.status = UpperTrim[raw.status.v]
             /\ ~KnownStatus(raw.status) => listing.status = "ACTIVE"

\* a Listing produced from a price that is not a numeral, a latitude that
\* is null, a longitude that is left out and a status that is not known
C27_Witness ==
    /\ ListingProduced("A")
    /\ CurrentRecord("A").rawData.price = JsString("abc")
    /\ CurrentRecord("A").rawData.latitude = JsNull
    /\ CurrentRecord("A").rawData.longitude = JsUndefined
    /\ CurrentRecord("A").rawData.status = JsString("Closed")
    /\ runs["A"].listingData = ListingRow(1, 0, 0, 0, "ACTIVE")

====
